---- MODULE Spec2Model ----
(***************************************************************************)
(* dotmgr's Manager (src/dotmgr/manager.py): the generalize / specialize   *)
(* line filters, and the add / delete / link operations on the three       *)
(* locations of a dotfile (home, stage, repository).                       *)
(*                                                                         *)
(* Text is modelled character by character: a string is a sequence of      *)
(* one-character strings, a file is the string written to it, and          *)
(* readlines() cuts that string after every newline.                       *)
(***************************************************************************)
EXTENDS Integers, Sequences, FiniteSets, TLC

VARIABLES
    hostname,   \* gethostname()
    tagConfig,  \* the lines of the tag configuration file
    tags,       \* self._tags: the host's tags, a list of strings
    stagePath,  \* self.dotfile_stage_path, relative to the repository root
    tagConfigPath, \* self.dotfile_tag_config_path, relative to the repository root
    home,       \* per dotfile path, the entry at home_path(path): none, a file, a symlink to the stage
    homeDirs,   \* the directories under $HOME that exist
    stage,      \* per dotfile path, the entry at stage_path(path)
    stageDirs,  \* the directories of the stage that exist (<<>> is the stage root)
    repo,       \* per dotfile path, the entry at repo_path(path)
    repoDirs,   \* the directories of the repository that exist
    last,       \* the last call: operation, arguments, how it ended, what it printed and delegated
    fMode,      \* the filter that is running: "specialize", "generalize", "done", "exit"
    fPlan,      \* the filters still to run on the output of this one
    fOrig,      \* the lines the first filter was given
    fContent,   \* content: the lines the running filter reads
    fCseq,      \* cseq of the running filter
    fPos,       \* position of the loop `for line in content` (0: cseq not yet identified)
    fSuppress,  \* comment_out (specialize) or strip (generalize)
    fOut,       \* the strings passed to dotfile.write so far, in order
    fResults    \* per finished filter: its mode, the lines it read, readlines() of the file it wrote

fvars == <<fMode, fPlan, fOrig, fContent, fCseq, fPos, fSuppress, fOut, fResults>>
fsvars == <<home, homeDirs, stage, stageDirs, repo, repoDirs, last>>
mvars == <<hostname, tagConfig, tags, stagePath, tagConfigPath>>
vars == <<hostname, tagConfig, tags, stagePath, tagConfigPath, home, homeDirs, stage, stageDirs, repo, repoDirs, last,
          fMode, fPlan, fOrig, fContent, fCseq, fPos, fSuppress, fOut, fResults>>

----------------------------------------------------------------------------
(* Python string operations, on sequences of characters *)

NL == "\n"

\* str.isspace() for one character
IsSpace(c) == c \in {" ", NL, "\t"}

\* seq[1:]
Rest(seq) == IF Len(seq) = 0 THEN <<>> ELSE SubSeq(seq, 2, Len(seq))

\* s.find(sub) + 1: the index of the first occurrence of sub in s, 0 if none
Find(s, sub) ==
    LET hits == {i \in 1..(Len(s) - Len(sub) + 1) : SubSeq(s, i, i + Len(sub) - 1) = sub}
    IN  IF hits = {} THEN 0 ELSE CHOOSE i \in hits : \A j \in hits : i <= j

\* sub in s
Contains(s, sub) == Find(s, sub) # 0

\* s.startswith(p)
StartsWith(s, p) == Len(p) <= Len(s) /\ SubSeq(s, 1, Len(p)) = p

\* the i of the first character of s at or after `from` that is (is not) a space
RECURSIVE SkipWhile(_, _, _)
SkipWhile(s, from, space) ==
    IF from > Len(s) \/ IsSpace(s[from]) # space THEN from
    ELSE SkipWhile(s, from + 1, space)

\* s.split(): the maximal runs of non-whitespace characters
RECURSIVE SplitWS(_)
SplitWS(s) ==
    LET b == SkipWhile(s, 1, TRUE)
        e == SkipWhile(s, b, FALSE)
    IN  IF b > Len(s) THEN <<>>
        ELSE <<SubSeq(s, b, e - 1)>> \o SplitWS(SubSeq(s, e, Len(s)))

\* s.split(sep), sep not empty
RECURSIVE SplitSep(_, _)
SplitSep(s, sep) ==
    LET i == Find(s, sep)
    IN  IF i = 0 THEN <<s>>
        ELSE <<SubSeq(s, 1, i - 1)>> \o SplitSep(SubSeq(s, i + Len(sep), Len(s)), sep)

\* sep.join(slices)
RECURSIVE Join(_, _)
Join(sep, slices) ==
    IF Len(slices) = 0 THEN <<>>
    ELSE IF Len(slices) = 1 THEN slices[1]
    ELSE slices[1] \o sep \o Join(sep, Rest(slices))

\* the content of a file after the given writes
RECURSIVE Flatten(_)
Flatten(writes) ==
    IF Len(writes) = 0 THEN <<>> ELSE writes[1] \o Flatten(Rest(writes))

\* file.readlines(): the text cut after every newline
RECURSIVE Readlines(_)
Readlines(text) ==
    LET i == Find(text, <<NL>>)
    IN  IF Len(text) = 0 THEN <<>>
        ELSE IF i = 0 THEN <<text>>
        ELSE <<SubSeq(text, 1, i)>> \o Readlines(SubSeq(text, i + 1, Len(text)))

----------------------------------------------------------------------------
(* The words of the directive syntax and the text the model runs on *)

KwOnly == <<"o", "n", "l", "y">>
KwNot == <<"n", "o", "t">>
KwEnd == <<"e", "n", "d">>

TagHome == <<"h", "o", "m", "e">>
TagWork == <<"w", "o", "r", "k">>

\* the lines of the repository file a.txt of the end-to-end example
LComment == <<"#", " ", "c", "o", "m", "m", "e", "n", "t", "\n">>
LLine1 == <<"l", "i", "n", "e", "1", "\n">>
LHashOnlyWork == <<"#", "o", "n", "l", "y", " ", "w", "o", "r", "k", "\n">>
LSecretWork == <<"s", "e", "c", "r", "e", "t", "w", "o", "r", "k", "\n">>
LHashEnd == <<"#", "e", "n", "d", "\n">>
LLine2 == <<"l", "i", "n", "e", "2", "\n">>
LCommentedSecret == <<"#", "s", "e", "c", "r", "e", "t", "w", "o", "r", "k", "\n">>

\* directive lines for the comment sequence "#", and content lines
LOnlyWork == <<"#", "#", "o", "n", "l", "y", " ", "w", "o", "r", "k", "\n">>
LNotWork == <<"#", "#", "n", "o", "t", " ", "w", "o", "r", "k", "\n">>
LEnd == <<"#", "#", "e", "n", "d", "\n">>
LOnlyWorkEnd == <<"#", "#", "o", "n", "l", "y", " ", "w", "o", "r", "k", " ", "#", "#", "e", "n", "d", "\n">>
LPlain == <<"x", "\n">>
LIndented == <<" ", "#", "y", "\n">>
LBlank == <<"\n">>
LHeader == <<"#", " ", "c", "\n">>

ExampleFile == <<LComment, LLine1, LHashOnlyWork, LSecretWork, LHashEnd, LLine2>>
ExampleStage == <<LComment, LLine1, LHashOnlyWork, LCommentedSecret, LHashEnd, LLine2>>
\* the same file with its directives written with the doubled comment sequence
ExampleFileDoubled == <<LComment, LLine1, LOnlyWork, LSecretWork, LEnd, LLine2>>
ExampleStageDoubled == <<LComment, LLine1, LOnlyWork, LCommentedSecret, LEnd, LLine2>>

\* at most MaxBody lines follow the first line of a generated file
MaxBody == 3

HeaderPool == {LHeader, LBlank}
BodyPool == {LOnlyWork, LNotWork, LEnd, LOnlyWorkEnd, LPlain, LHashEnd, LIndented}

Contents ==
    {<<h>> \o b : h \in HeaderPool,
                  b \in UNION {[1..n -> BodyPool] : n \in 0..MaxBody}}
    \cup {ExampleFile, ExampleFileDoubled}

\* what _get_tags can return: the tags of the host's line, or [""] for an unknown host
NoTags == << <<>> >>
HostTagChoices == {<<TagHome>>, <<TagWork>>, NoTags}

\* the line is taken for the host's whenever it starts with the hostname
IsHostLineByPrefix(line, host) == StartsWith(line, host)

\* line.startswith(hostname + ':')
IsHostLine(line, host) == StartsWith(line, host \o <<":">>)

\* Manager._get_tags on the lines of the tag configuration file
RECURSIVE get_tags(_, _)
get_tags(host, tag_config) ==
    IF tag_config = <<>> THEN NoTags
    ELSE IF IsHostLine(tag_config[1], host)
    THEN SplitWS(SplitSep(tag_config[1], <<":">>)[2])
    ELSE get_tags(host, Rest(tag_config))

\* hostnames: one is the start of another
HostPc == <<"p", "c">>
HostPc2 == <<"p", "c", "2">>
HostP == <<"p">>
HostTv == <<"t", "v">>

\* lines of a tag configuration file
LPcHome == HostPc \o <<":">> \o TagHome \o <<NL>>
LPcWork == HostPc \o <<":">> \o TagWork \o <<NL>>
LPc2Work == HostPc2 \o <<":">> \o TagWork \o <<" ">> \o TagHome \o <<NL>>
LPWork == HostP \o <<":">> \o <<" ">> \o TagWork \o <<NL>>
LPcNothing == HostPc \o <<":", NL>>
LNoColon == HostPc \o <<" ">> \o TagWork \o <<NL>>

\* the tag configuration file of the hosts pc (home) and pc2 (work home); tv is unknown
TagConfigFile == <<LPcHome, LPc2Work, LPcWork>>

\* the tag lists a directive line can carry
DirectiveTagLists == {<<>>, <<TagWork>>, <<TagHome>>, <<TagHome, TagWork>>}

----------------------------------------------------------------------------
(* The conditional-block filters *)

\* _identify_comment_sequence: findall(r'\S+', line); <<>> stands for no match
Matches(line) == SplitWS(line)

identify_comment_sequence(line) == Matches(line)[1]

\* a directive looked for with the comment sequence written once
DirectiveSingle(cseq, keyword) == cseq \o keyword

\* '{0}{0}only'.format(cseq) and its like
Directive(cseq, keyword) == cseq \o cseq \o keyword

\* the line cut at single blanks: the newline leaves an empty string among the tags
section_tagsWithEmpty(line) == Rest(SplitWS(line)) \o << <<>> >>

\* line.split()[1:]
section_tags(line) == Rest(SplitWS(line))

\* [tag for tag in self._tags if tag in section_tags] is not empty
HasHostTag(hostTags, sectionTags) ==
    \E i \in 1..Len(hostTags) : \E j \in 1..Len(sectionTags) : hostTags[i] = sectionTags[j]

\* the slices after the first glued together without the comment sequence
StrippedNoRejoin(line, cseq) == Join(<<>>, Rest(SplitSep(line, cseq)))

\* the line as generalize writes it while strip is set
Stripped(line, cseq) == Join(cseq, Rest(SplitSep(line, cseq)))

\* the line as specialize writes it while comment_out is set
Commented(line, cseq) == cseq \o line

\* the `only` block without its comment_out = False
SpecializeAfterOnlyKeeps(line, cseq, comment_out) == comment_out

\* comment_out after the `only` block of a line (comment_out = False, line 309)
SpecializeAfterOnly(line, cseq, comment_out) ==
    IF Contains(line, Directive(cseq, KwOnly)) THEN FALSE ELSE comment_out

\* the `not` block with the test of the `only` block
SpecializeNotMatchesNegated(hostTags, sectionTags) == ~HasHostTag(hostTags, sectionTags)

\* the test of the `not` block: some host tag is among the section's tags (line 315)
SpecializeNotMatches(hostTags, sectionTags) == HasHostTag(hostTags, sectionTags)

\* the `not` block without its comment_out = False
SpecializeAfterNotKeeps(line, cseq, comment_out) == comment_out

\* comment_out after the `not` block of a line (comment_out = False, line 319)
SpecializeAfterNot(line, cseq, comment_out) ==
    IF Contains(line, Directive(cseq, KwNot)) THEN FALSE ELSE comment_out

\* the loop without the `end` test
SpecializeAfterEndKeeps(line, cseq, comment_out) == comment_out

\* comment_out after the `end` test of a line (lines 321-322)
SpecializeAfterEnd(line, cseq, comment_out) ==
    IF Contains(line, Directive(cseq, KwEnd)) THEN FALSE ELSE comment_out

\* One turn of the loop of specialize's filter_and_write: the value of comment_out
\* after the line and the strings written for it. The two `continue` branches
\* return at once.
SpecializeStep(line, cseq, hostTags, comment_out) ==
    IF Contains(line, Directive(cseq, KwOnly)) /\ ~HasHostTag(hostTags, section_tags(line))
    THEN [suppress |-> TRUE, writes |-> <<line>>]
    ELSE
      LET c1 == SpecializeAfterOnly(line, cseq, comment_out)
      IN  IF /\ Contains(line, Directive(cseq, KwNot))
             /\ SpecializeNotMatches(hostTags, section_tags(line))
          THEN [suppress |-> TRUE, writes |-> <<line>>]
          ELSE
            LET c2 == SpecializeAfterNot(line, cseq, c1)
                c3 == SpecializeAfterEnd(line, cseq, c2)
            IN  [suppress |-> c3,
                 writes |-> <<IF c3 THEN Commented(line, cseq) ELSE line>>]

\* One turn of the loop of generalize's filter_and_write.
GeneralizeStep(line, cseq, hostTags, strip) ==
    IF Contains(line, Directive(cseq, KwOnly)) /\ ~HasHostTag(hostTags, section_tags(line))
    THEN [suppress |-> TRUE, writes |-> <<line>>]
    ELSE
      LET s1 == IF Contains(line, Directive(cseq, KwOnly)) THEN FALSE ELSE strip
      IN  IF Contains(line, Directive(cseq, KwNot)) /\ HasHostTag(hostTags, section_tags(line))
          THEN [suppress |-> TRUE, writes |-> <<line>>]
          ELSE
            LET s2 == IF Contains(line, Directive(cseq, KwNot)) THEN FALSE ELSE s1
                s3 == IF Contains(line, Directive(cseq, KwEnd)) THEN FALSE ELSE s2
            IN  [suppress |-> s3,
                 writes |-> <<IF s3 THEN Stripped(line, cseq) ELSE line>>]

FilterStep(mode, line, cseq, hostTags, suppress) ==
    IF mode = "specialize" THEN SpecializeStep(line, cseq, hostTags, suppress)
    ELSE GeneralizeStep(line, cseq, hostTags, suppress)

----------------------------------------------------------------------------
(* A filter run line by line, and the runs chained file to file *)

\* specialize, generalize its output, specialize that; or generalize alone
Plans == {<<"specialize", "generalize", "specialize">>, <<"generalize">>}

FilterInit ==
    /\ hostname \in {HostPc, HostP, HostTv}
    /\ tagConfig = <<LPcHome, LPWork>>
    /\ tags = get_tags(hostname, tagConfig)
    /\ tags \in HostTagChoices
    /\ stagePath = <<>> /\ tagConfigPath = <<>>
    /\ fOrig \in Contents
    /\ fContent = fOrig
    /\ \E plan \in Plans : fMode = plan[1] /\ fPlan = Rest(plan)
    /\ fCseq = <<>>
    /\ fPos = 0
    /\ fSuppress = FALSE
    /\ fOut = <<>>
    /\ fResults = <<>>
    /\ home = <<>> /\ homeDirs = {} /\ stage = <<>> /\ stageDirs = {}
    /\ repo = <<>> /\ repoDirs = {} /\ last = <<>>

Running == fMode \in {"specialize", "generalize"}

\* cseq = self._identify_comment_sequence(content[0]); comment_out = False
\* (exit() when the first line holds no token)
FilterOpen ==
    /\ Running /\ fPos = 0
    /\ IF Matches(fContent[1]) = <<>>
       THEN /\ fMode' = "exit"
            /\ UNCHANGED <<fCseq, fPos>>
       ELSE /\ fCseq' = identify_comment_sequence(fContent[1])
            /\ fPos' = 1
            /\ UNCHANGED fMode
    /\ fSuppress' = FALSE
    /\ UNCHANGED <<mvars, fsvars, fPlan, fOrig, fContent, fOut, fResults>>

FilterLine(mode) ==
    /\ fMode = mode /\ fPos >= 1 /\ fPos <= Len(fContent)
    /\ LET r == FilterStep(mode, fContent[fPos], fCseq, tags, fSuppress)
       IN  /\ fSuppress' = r.suppress
           /\ fOut' = fOut \o r.writes
    /\ fPos' = fPos + 1
    /\ UNCHANGED <<mvars, fsvars, fMode, fPlan, fOrig, fContent, fCseq, fResults>>

SpecializeLine == FilterLine("specialize")

GeneralizeLine == FilterLine("generalize")

\* The loop is over and the file is closed. The next filter of the plan reads the
\* file back; it returns at once when readlines() gives no line.
FilterClose ==
    /\ Running /\ fPos = Len(fContent) + 1
    /\ LET written == Readlines(Flatten(fOut))
       IN  /\ fResults' = Append(fResults, [mode |-> fMode, input |-> fContent, lines |-> written])
           /\ IF fPlan # <<>> /\ written # <<>>
              THEN /\ fMode' = fPlan[1]
                   /\ fPlan' = Rest(fPlan)
                   /\ fContent' = written
                   /\ fPos' = 0
                   /\ fOut' = <<>>
                   /\ fSuppress' = FALSE
                   /\ UNCHANGED fCseq
              ELSE /\ fMode' = "done"
                   /\ UNCHANGED <<fPlan, fContent, fPos, fOut, fSuppress, fCseq>>
    /\ UNCHANGED <<mvars, fsvars, fOrig>>

FilterNext == FilterOpen \/ SpecializeLine \/ GeneralizeLine \/ FilterClose

SpecFilter == FilterInit /\ [][FilterNext]_vars

----------------------------------------------------------------------------
(* The three locations of a dotfile *)

\* relative dotfile paths, as their components: `a` and `d/e/b`
PathTop == <<"a">>
PathNested == <<"d", "e", "b">>
Paths == {PathTop, PathNested}

\* os.path.dirname of a relative path
dirname(path) == SubSeq(path, 1, Len(path) - 1)

\* the directories makedirs(dir, exist_ok=True) leaves in existence
WithDirs(dirs, dir) == dirs \cup {SubSeq(dir, 1, n) : n \in 0..Len(dir)}

NoEntry == [kind |-> "none", text |-> <<>>]
SymLink == [kind |-> "link", text |-> <<>>]
FileOf(text) == [kind |-> "file", text |-> text]

\* the texts of the files the model starts from
TextBlock == Flatten(<<LHeader, LOnlyWork, LPlain, LEnd>>)
TextEmpty == <<>>
TextBlankFirst == Flatten(<<LBlank, LPlain>>)
TextPool == {TextBlock, TextEmpty, TextBlankFirst}

\* the whole of filter_and_write: the writes of the loop from line i on
RECURSIVE FilterWrites(_, _, _, _, _, _)
FilterWrites(mode, content, cseq, hostTags, i, suppress) ==
    IF i > Len(content) THEN <<>>
    ELSE LET r == FilterStep(mode, content[i], cseq, hostTags, suppress)
         IN  r.writes \o FilterWrites(mode, content, cseq, hostTags, i + 1, r.suppress)

\* filter_and_write on an opened file: whether it ended in exit(), and the text written
filter_and_write(mode, content, hostTags) ==
    IF Matches(content[1]) = <<>>
    THEN [exit |-> TRUE, text |-> <<>>]
    ELSE [exit |-> FALSE,
          text |-> Flatten(FilterWrites(mode, content,
                                        identify_comment_sequence(content[1]),
                                        hostTags, 1, FALSE))]

\* The state an operation works on: the three trees, and what the call has done so
\* far (the exception or exit() that ended it, the warnings printed, the messages
\* of lines 52, 156 and 211 printed, the calls made to the repository collaborator,
\* the paths an operation on all dotfiles has handed to the single-file operation).
Fs == [home |-> home, homeDirs |-> homeDirs, stage |-> stage, stageDirs |-> stageDirs,
       repo |-> repo, repoDirs |-> repoDirs,
       raised |-> "none", warnings |-> 0, said |-> {}, vcs |-> <<>>, calls |-> <<>>]

Ended(st) == st.raised # "none"

\* exit(): the process ends here
exit(st) == [st EXCEPT !.raised = "exit"]

\* os.path.exists(home_path(path)): a symlink counts when its target exists
HomeExists(st, path) ==
    \/ st.home[path].kind = "file"
    \/ st.home[path].kind = "link" /\ st.stage[path].kind = "file"

\* Manager.link
link(st, path) ==
    IF HomeExists(st, path) THEN st
    ELSE IF st.home[path].kind = "link"
    THEN [st EXCEPT !.homeDirs = WithDirs(@, dirname(path)),
                    !.raised = "FileExistsError"]
    ELSE [st EXCEPT !.homeDirs = WithDirs(@, dirname(path)),
                    !.home[path] = SymLink]

\* the repository directory is made before the stage file is read
generalizeMakingDirs(st, path, commit) ==
    LET made == [st EXCEPT !.repoDirs = WithDirs(@, dirname(path))]
    IN  IF st.stage[path].kind # "file" THEN [made EXCEPT !.said = @ \cup {"not handled"}]
        ELSE IF Readlines(st.stage[path].text) = <<>> THEN made
        ELSE
          LET f == filter_and_write("generalize", Readlines(st.stage[path].text), tags)
              opened == [made EXCEPT !.repo[path] = FileOf(f.text)]
          IN  IF f.exit THEN exit([opened EXCEPT !.said = @ \cup {"no comment character"}])
              ELSE IF commit THEN [opened EXCEPT !.vcs = Append(@, <<"update", path>>)]
              ELSE opened

\* Manager.generalize
generalize(st, path, commit) ==
    IF st.stage[path].kind # "file" THEN [st EXCEPT !.said = @ \cup {"not handled"}]
    ELSE IF Readlines(st.stage[path].text) = <<>> THEN st
    ELSE
      LET f == filter_and_write("generalize", Readlines(st.stage[path].text), tags)
          opened == [st EXCEPT !.repoDirs = WithDirs(@, dirname(path)),
                               !.repo[path] = FileOf(f.text)]
      IN  IF f.exit THEN exit([opened EXCEPT !.said = @ \cup {"no comment character"}])
          ELSE IF commit THEN [opened EXCEPT !.vcs = Append(@, <<"update", path>>)]
          ELSE opened

\* Manager.specialize
specialize(st, path, linkFlag) ==
    IF st.repo[path].kind # "file" THEN [st EXCEPT !.raised = "FileNotFoundError"]
    ELSE IF Readlines(st.repo[path].text) = <<>> THEN st
    ELSE
      LET f == filter_and_write("specialize", Readlines(st.repo[path].text), tags)
          opened == [st EXCEPT !.stageDirs = WithDirs(@, dirname(path)),
                               !.stage[path] = FileOf(f.text)]
      IN  IF f.exit THEN exit([opened EXCEPT !.said = @ \cup {"no comment character"}])
          ELSE IF linkFlag THEN link(opened, path)
          ELSE opened

\* shutil.move(home, stage): the stage file's directory is not created
move(st, path) ==
    IF st.home[path].kind = "none" \/ dirname(path) \notin st.stageDirs
    THEN [st EXCEPT !.raised = "FileNotFoundError"]
    ELSE [st EXCEPT !.stage[path] = st.home[path],
                    !.home[path] = NoEntry]

\* the test sees no symlink
islinkNever(st, path) == FALSE

\* os.path.islink(home_path(path)): true of a symlink whether or not its target exists
islink(st, path) == st.home[path].kind = "link"

\* Manager.add; verbose is self.verbose of the Manager that runs the call
add(st, path, commit, verbose) ==
    IF islink(st, path)
    THEN exit(IF verbose THEN [st EXCEPT !.said = @ \cup {"already managed"}] ELSE st)
    ELSE
      LET moved == move(st, path)
          linked == IF Ended(moved) THEN moved ELSE link(moved, path)
          done == IF Ended(linked) THEN linked ELSE generalize(linked, path, FALSE)
      IN  IF ~Ended(done) /\ commit
          THEN [done EXCEPT !.vcs = Append(@, <<"add", path>>)]
          ELSE done

\* the repository file goes too
RemovesFromRepoOnlyOnFlag(rm_repo, commit) == rm_repo

\* if rm_repo or commit (line 82)
RemovesFromRepo(rm_repo, commit) == rm_repo \/ commit

\* try: remove(file) except FileNotFoundError: print('Warning: ...')
remove(st, tree, path) ==
    IF st[tree][path].kind = "none"
    THEN [st EXCEPT !.warnings = @ + 1]
    ELSE [st EXCEPT ![tree][path] = NoEntry]

\* Manager.delete
delete(st, path, rm_repo, commit) ==
    LET s1 == remove(st, "home", path)
        s2 == remove(s1, "stage", path)
        s3 == IF RemovesFromRepo(rm_repo, commit) THEN remove(s2, "repo", path) ELSE s2
    IN  IF commit THEN [s3 EXCEPT !.vcs = Append(@, <<"remove", path>>)] ELSE s3

----------------------------------------------------------------------------
(* The operations on all dotfiles *)

\* The names of directory entries. listdir gives the entries of a directory in
\* arbitrary order: the model lists them in this order or in the reverse of it.
NameOrder == <<".git", "a", "b", "d", "e", "st", "tags.conf">>

Reverse(seq) == [i \in 1..Len(seq) |-> seq[Len(seq) + 1 - i]]

\* the files of a tree
FilesOf(tree) == {p \in DOMAIN tree : tree[p].kind # "none"}

\* the root of a tree and the directories its files are in
DirsOf(tree) == UNION {WithDirs({}, dirname(p)) : p \in FilesOf(tree)} \cup {<<>>}

\* os.listdir(dir) in a tree with the files `files` and the directories `dirs`
listdir(files, dirs, dir, listReversed) ==
    LET below == {p \in files \cup dirs :
                     Len(p) = Len(dir) + 1 /\ SubSeq(p, 1, Len(dir)) = dir}
        names == {p[Len(p)] : p \in below}
        listed == SelectSeq(NameOrder, LAMBDA n : n \in names)
    IN  IF listReversed THEN Reverse(listed) ELSE listed

\* The loop of _perform_on_stage (dir is the stage root, <<>>) and of
\* _recurse_stage_directory over the entries of dir that are still to come: the
\* files handed to the action, in order. No action adds an entry to the stage or
\* removes another one than the file it is given, so the listings do not depend on
\* the actions already performed.
RECURSIVE recurse_stage_directory(_, _, _, _, _)
recurse_stage_directory(files, dirs, dir, entries, listReversed) ==
    IF entries = <<>> THEN <<>>
    ELSE LET full_path == Append(dir, entries[1])
             here == IF full_path \in dirs
                     THEN recurse_stage_directory(
                              files, dirs, full_path,
                              listdir(files, dirs, full_path, listReversed), listReversed)
                     ELSE <<full_path>>
         IN  here \o recurse_stage_directory(files, dirs, dir, Rest(entries), listReversed)

\* action(path, *args) for the single-file operations that are performed on all
perform(st, action, path, args) ==
    CASE action = "delete" -> delete(st, path, args[1], args[2])
      [] action = "link" -> link(st, path)
      [] action = "generalize" -> generalize(st, path, args[1])
      [] action = "specialize" -> specialize(st, path, args[1])

\* the action on each of the paths in turn, as long as none ends the process
RECURSIVE perform_each(_, _, _, _)
perform_each(st, action, paths, args) ==
    IF paths = <<>> \/ Ended(st) THEN st
    ELSE perform_each(perform([st EXCEPT !.calls = Append(@, paths[1])],
                              action, paths[1], args),
                      action, Rest(paths), args)

\* Manager._perform_on_stage; listdir raises when the stage root does not exist
perform_on_stage(st, action, args, listReversed) ==
    IF <<>> \notin st.stageDirs THEN [st EXCEPT !.raised = "FileNotFoundError"]
    ELSE perform_each(st, action,
                      recurse_stage_directory(
                          FilesOf(st.stage), st.stageDirs, <<>>,
                          listdir(FilesOf(st.stage), st.stageDirs, <<>>, listReversed),
                          listReversed),
                      args)

\* the files go, the directories stay
rmtreeFiles(st) == [st EXCEPT !.stage = [p \in DOMAIN st.stage |-> NoEntry]]

\* shutil.rmtree(self.dotfile_stage_path): the stage root and all below it
rmtree(st) == [st EXCEPT !.stage = [p \in DOMAIN st.stage |-> NoEntry],
                         !.stageDirs = {}]

\* Manager.delete_all
delete_all(st, listReversed) ==
    LET deleted == perform_on_stage(st, "delete", <<FALSE, FALSE>>, listReversed)
    IN  IF Ended(deleted) THEN deleted ELSE rmtree(deleted)

\* Manager.link_all
link_all(st, listReversed) == perform_on_stage(st, "link", <<>>, listReversed)

\* Manager.generalize_all
generalize_all(st, commit, listReversed) ==
    perform_on_stage(st, "generalize", <<commit>>, listReversed)

\* a stage and a tag configuration file that are not in the repository
OutsideStage == <<"..", "stage">>
OutsideTagConfig == <<"..", "tags.conf">>

\* the stage is a directory of the repository
StageInRepo == stagePath[1] # ".."

\* the walk follows directories down to this depth
MaxDepth == 6

\* The walk of specialize_all through the repository is a record w: the tree of the
\* repository (files and directories), the paths handed to specialize so far, and
\* whether the walk has been cut at MaxDepth. specialize(path) during the walk
\* writes stage_path(path): a file of the repository when the stage is in it.
Specialized(w, path) ==
    LET staged == stagePath \o path
        text == filter_and_write("specialize", Readlines(w.tree[path].text), tags).text
        called == [w EXCEPT !.calls = Append(@, path)]
    IN  IF StageInRepo /\ Readlines(w.tree[path].text) # <<>>
        THEN [called EXCEPT
                 !.tree = [p \in DOMAIN w.tree \cup {staged} |->
                              IF p = staged THEN FileOf(text) ELSE w.tree[p]],
                 !.dirs = WithDirs(@, dirname(staged))]
        ELSE called

\* The loop of _specialize_directory over the entries of dir that are still to come.
RECURSIVE specialize_directory(_, _, _, _)
specialize_directory(w, dir, entries, listReversed) ==
    IF entries = <<>> \/ w.cut THEN w
    ELSE LET entry == entries[1]
             full_path == Append(dir, entry)
             here == IF entry = ".git" THEN w
                     ELSE IF full_path \in w.dirs
                     THEN IF Len(full_path) >= MaxDepth THEN [w EXCEPT !.cut = TRUE]
                          ELSE specialize_directory(
                                   w, full_path,
                                   listdir(FilesOf(w.tree), w.dirs, full_path, listReversed),
                                   listReversed)
                     ELSE Specialized(w, full_path)
         IN  specialize_directory(here, dir, Rest(entries), listReversed)

\* The loop of specialize_all over the entries of the repository root that are still
\* to come (lines 352-361).
RECURSIVE specialize_root(_, _, _)
specialize_root(w, entries, listReversed) ==
    IF entries = <<>> \/ w.cut THEN w
    ELSE LET entry == entries[1]
             here == IF <<entry>> \in w.dirs
                     THEN IF <<entry>> = stagePath \/ entry = ".git" THEN w
                          ELSE specialize_directory(
                                   w, <<entry>>,
                                   listdir(FilesOf(w.tree), w.dirs, <<entry>>, listReversed),
                                   listReversed)
                     ELSE IF <<entry>> = tagConfigPath THEN w
                     ELSE Specialized(w, <<entry>>)
         IN  specialize_root(here, Rest(entries), listReversed)

\* the walk of specialize_all through the repository with this tree
specialize_walk(tree, dirs, listReversed) ==
    specialize_root([tree |-> tree, dirs |-> dirs, calls |-> <<>>, cut |-> FALSE],
                    listdir(FilesOf(tree), dirs, <<>>, listReversed), listReversed)

\* Manager.specialize_all with the stage outside the repository: the walk leaves the
\* repository as it is, and hands its files to specialize until one ends the process
specialize_all(st, linkFlag, listReversed) ==
    LET specialized ==
            perform_each(st, "specialize",
                         specialize_walk(st.repo, st.repoDirs, listReversed).calls,
                         <<linkFlag>>)
    IN  IF linkFlag /\ ~Ended(specialized) THEN link_all(specialized, listReversed)
        ELSE specialized

----------------------------------------------------------------------------
(* The operations as steps of the file system *)

\* The trees a Manager can find: files of the user in home, generic files in the
\* repository, an empty stage whose directories d and d/e may or may not exist yet.
Init ==
    /\ hostname = HostPc
    /\ tagConfig = TagConfigFile
    /\ tags = get_tags(hostname, tagConfig)
    /\ stagePath = OutsideStage /\ tagConfigPath = OutsideTagConfig
    /\ home \in [Paths -> {NoEntry} \cup {FileOf(t) : t \in TextPool}]
    /\ homeDirs = DirsOf(home)
    /\ stage = [p \in Paths |-> NoEntry]
    /\ stageDirs \in {{<<>>}, WithDirs({}, dirname(PathNested))}
    /\ repo \in [Paths -> {NoEntry, FileOf(TextBlock)}]
    /\ repoDirs = DirsOf(repo)
    /\ last = [op |-> "none", path |-> <<>>, flags |-> <<>>, pre |-> <<>>,
               raised |-> "none", warnings |-> 0, said |-> {}, vcs |-> <<>>,
               calls |-> <<>>]
    /\ fMode = "idle" /\ fPlan = <<>> /\ fOrig = <<>> /\ fContent = <<>>
    /\ fCseq = <<>> /\ fPos = 0 /\ fSuppress = FALSE /\ fOut = <<>> /\ fResults = <<>>

\* the entries of the path before the call, and whether the stage had its directory
Pre(path) ==
    IF path \notin Paths THEN <<>>
    ELSE [home |-> home[path], stage |-> stage[path], repo |-> repo[path],
          stageDir |-> dirname(path) \in stageDirs]

\* the call has ended in the state st
Becomes(st, op, path, flags) ==
    /\ home' = st.home /\ homeDirs' = st.homeDirs
    /\ stage' = st.stage /\ stageDirs' = st.stageDirs
    /\ repo' = st.repo /\ repoDirs' = st.repoDirs
    /\ last' = [op |-> op, path |-> path, flags |-> flags, pre |-> Pre(path),
                raised |-> st.raised, warnings |-> st.warnings, said |-> st.said,
                vcs |-> st.vcs, calls |-> st.calls]
    /\ UNCHANGED <<mvars, fvars>>

Add == \E path \in Paths, commit \in BOOLEAN, verbose \in BOOLEAN :
    Becomes(add(Fs, path, commit, verbose), "add", path, <<commit, verbose>>)

Delete == \E path \in Paths, rm_repo \in BOOLEAN, commit \in BOOLEAN :
    Becomes(delete(Fs, path, rm_repo, commit), "delete", path, <<rm_repo, commit>>)

Link == \E path \in Paths :
    Becomes(link(Fs, path), "link", path, <<>>)

Generalize == \E path \in Paths, commit \in BOOLEAN :
    Becomes(generalize(Fs, path, commit), "generalize", path, <<commit>>)

Specialize == \E path \in Paths, linkFlag \in BOOLEAN :
    Becomes(specialize(Fs, path, linkFlag), "specialize", path, <<linkFlag>>)

\* The operations on all dotfiles have no path: listReversed is the order in which
\* listdir gives the entries of a directory.
DeleteAll == \E listReversed \in BOOLEAN :
    Becomes(delete_all(Fs, listReversed), "delete_all", <<>>, <<>>)

LinkAll == \E listReversed \in BOOLEAN :
    Becomes(link_all(Fs, listReversed), "link_all", <<>>, <<>>)

GeneralizeAll == \E commit \in BOOLEAN, listReversed \in BOOLEAN :
    Becomes(generalize_all(Fs, commit, listReversed), "generalize_all", <<>>, <<commit>>)

SpecializeAll == \E linkFlag \in BOOLEAN, listReversed \in BOOLEAN :
    Becomes(specialize_all(Fs, linkFlag, listReversed), "specialize_all", <<>>, <<linkFlag>>)

Next ==
    \/ Add \/ Delete \/ Link \/ Generalize \/ Specialize
    \/ DeleteAll \/ LinkAll \/ GeneralizeAll \/ SpecializeAll

Spec == Init /\ [][Next]_vars

----------------------------------------------------------------------------
(* The walk of specialize_all through a repository that holds more than dotfiles:
   .git directories, the stage, the tag configuration file *)

\* the files a repository may hold
WalkPaths ==
    {<<"a">>, <<"d", "b">>, <<"d", "e", "b">>,
     <<".git", "a">>, <<"d", ".git", "a">>,
     <<"st", "a">>, <<"d", "st", "a">>,
     <<"tags.conf">>, <<"d", "tags.conf">>}

\* where the stage is: outside the repository, in its root, further down
StagePaths == {OutsideStage, <<"st">>, <<"d", "st">>}

\* where the tag configuration file is
TagConfigPaths == {OutsideTagConfig, <<"tags.conf">>, <<"d", "tags.conf">>}

\* Any set of the files, the tag configuration file among them when it is in the
\* repository (the Manager has read it).
WalkInit ==
    /\ stagePath \in StagePaths
    /\ tagConfigPath \in TagConfigPaths
    /\ repo \in [WalkPaths -> {NoEntry, FileOf(TextBlock)}]
    /\ tagConfigPath \in WalkPaths => repo[tagConfigPath].kind = "file"
    /\ repoDirs = DirsOf(repo)
    /\ last = [op |-> "none", flags |-> <<>>, calls |-> <<>>, cut |-> FALSE]
    /\ hostname = HostPc
    /\ tagConfig = TagConfigFile
    /\ tags = get_tags(hostname, tagConfig)
    /\ home = <<>> /\ homeDirs = {} /\ stage = <<>> /\ stageDirs = {}
    /\ fMode = "idle" /\ fPlan = <<>> /\ fOrig = <<>> /\ fContent = <<>>
    /\ fCseq = <<>> /\ fPos = 0 /\ fSuppress = FALSE /\ fOut = <<>> /\ fResults = <<>>

\* specialize_all(link=False), once: the files it hands to specialize and the files
\* these calls leave in the repository. last.cut: the walk has gone below MaxDepth
\* into directories that it has made itself, and is not followed further.
Walk == \E listReversed \in BOOLEAN :
    /\ last.op = "none"
    /\ LET w == specialize_walk(repo, repoDirs, listReversed)
       IN  /\ repo' = w.tree
           /\ repoDirs' = w.dirs
           /\ last' = [op |-> "specialize_all", flags |-> <<FALSE>>,
                       calls |-> w.calls, cut |-> w.cut]
    /\ UNCHANGED <<mvars, fvars, home, homeDirs, stage, stageDirs>>

SpecWalk == WalkInit /\ [][Walk]_vars

----------------------------------------------------------------------------
(* The Manager reading the tag configuration file *)

\* a tag configuration file has at most MaxConfig lines
MaxConfig == 3

ConfigPool == {LPcHome, LPcWork, LPc2Work, LPWork, LPcNothing, LNoColon}

TagConfigs == UNION {[1..n -> ConfigPool] : n \in 0..MaxConfig}

\* A host and a tag configuration file, the Manager not yet constructed.
TagsInit ==
    /\ hostname \in {HostPc, HostPc2, HostP, HostTv}
    /\ tagConfig \in TagConfigs
    /\ tags = <<>>
    /\ last = [op |-> "none", warnings |-> 0]
    /\ stagePath = OutsideStage /\ tagConfigPath = OutsideTagConfig
    /\ home = <<>> /\ homeDirs = {} /\ stage = <<>> /\ stageDirs = {}
    /\ repo = <<>> /\ repoDirs = {}
    /\ fMode = "idle" /\ fPlan = <<>> /\ fOrig = <<>> /\ fContent = <<>>
    /\ fCseq = <<>> /\ fPos = 0 /\ fSuppress = FALSE /\ fOut = <<>> /\ fResults = <<>>

\* self._tags = self._get_tags() (line 40); the warning of line 197 is printed when
\* no line is the host's
GetTags ==
    /\ last.op = "none"
    /\ tags' = get_tags(hostname, tagConfig)
    /\ last' = [op |-> "_get_tags",
                warnings |-> IF \E i \in 1..Len(tagConfig) : IsHostLine(tagConfig[i], hostname)
                             THEN 0 ELSE 1]
    /\ UNCHANGED <<hostname, tagConfig, stagePath, tagConfigPath, fvars,
                   home, homeDirs, stage, stageDirs, repo, repoDirs>>

SpecTags == TagsInit /\ [][GetTags]_vars

----------------------------------------------------------------------------
(* What the claims speak of *)

Range(seq) == {seq[i] : i \in 1..Len(seq)}

\* the two tag lists have a tag in common
Common(hostTags, sectionTags) == Range(hostTags) \cap Range(sectionTags) # {}

HasDirective(line, cseq, keyword) == Contains(line, cseq \o cseq \o keyword)

OpensBlock(line, cseq) == HasDirective(line, cseq, KwOnly) \/ HasDirective(line, cseq, KwNot)

AnyDirective(line, cseq) == OpensBlock(line, cseq) \/ HasDirective(line, cseq, KwEnd)

\* the line opens a block that is suppressed on a host with these tags
Suppressing(line, cseq, hostTags) ==
    \/ HasDirective(line, cseq, KwOnly) /\ ~Common(hostTags, Rest(SplitWS(line)))
    \/ HasDirective(line, cseq, KwNot) /\ Common(hostTags, Rest(SplitWS(line)))

\* the directive line `<cseq><cseq>keyword tag tag ...`
RECURSIVE TagWords(_)
TagWords(tagList) ==
    IF Len(tagList) = 0 THEN <<>> ELSE <<" ">> \o tagList[1] \o TagWords(Rest(tagList))

DirectiveLine(cseq, keyword, tagList) == cseq \o cseq \o keyword \o TagWords(tagList) \o <<NL>>

\* every `only` / `not` line is closed by an `end` line before the next one, and
\* every `end` line closes one
RECURSIVE BalancedFrom(_, _, _, _)
BalancedFrom(content, cseq, i, open) ==
    IF i > Len(content) THEN ~open
    ELSE IF OpensBlock(content[i], cseq)
         THEN /\ ~open
              /\ ~HasDirective(content[i], cseq, KwEnd)
              /\ BalancedFrom(content, cseq, i + 1, TRUE)
    ELSE IF HasDirective(content[i], cseq, KwEnd)
         THEN open /\ BalancedFrom(content, cseq, i + 1, FALSE)
    ELSE BalancedFrom(content, cseq, i + 1, open)

Balanced(content) ==
    /\ SplitWS(content[1]) # <<>>
    /\ BalancedFrom(content, SplitWS(content[1])[1], 1, FALSE)

\* the filter whose loop variables the state holds
RunMode ==
    IF fMode = "done" THEN fResults[Len(fResults)].mode ELSE fMode

\* a line has been processed and fSuppress is the state it left
AfterLine == fMode \in {"specialize", "generalize", "done"} /\ fPos >= 2

LastLine == fContent[fPos - 1]

\* the run specialize -> generalize -> specialize has reached its n-th file
Chained(n) == Len(fResults) >= n /\ fResults[1].mode = "specialize"

----------------------------------------------------------------------------
(* C1 *)

ExampleRun == fOrig = ExampleFile /\ tags = <<TagHome>> /\ Chained(1)

ExampleDoubledRun == fOrig = ExampleFileDoubled /\ tags = <<TagHome>> /\ Chained(1)

\* C1, as claimed: specializing the example file (directive lines `#only work` and
\* `#end`, first line `# comment`) with host tags {home} comments out `secretwork`
\* and leaves every other line unchanged.
C1_ExampleCommentsSecret == ExampleRun => fResults[1].lines = ExampleStage

\* C1, amended: the comment sequence of the example file is `#`, so its directives
\* are `##only` and `##end`; `#only work` is no directive and specialize writes the
\* file unchanged. With the directive lines written `##only work` and `##end` the
\* line `secretwork` is written as `#secretwork` and every other line unchanged.
C1_ExampleNeedsDoubledDirective ==
    /\ ExampleRun => fResults[1].lines = ExampleFile
    /\ ExampleDoubledRun => fResults[1].lines = ExampleStageDoubled

C1_Witness == ExampleRun /\ fResults[1].input = ExampleFile /\ Len(fResults[1].lines) = 6

----------------------------------------------------------------------------
(* C2 *)

\* C2: for content with balanced directives, specialize applied to
\* generalize(specialize(content)) writes the lines specialize(content) wrote.
C2_StageIsFixedPoint ==
    (Chained(3) /\ Balanced(fOrig)) => fResults[3].lines = fResults[1].lines

\* a balanced file of which specialize commented a line out and generalize restored it
C2_Witness ==
    /\ Chained(3) /\ Balanced(fOrig)
    /\ fResults[1].lines # fOrig
    /\ fResults[2].lines = fOrig
    /\ fResults[3].lines = fResults[1].lines

----------------------------------------------------------------------------
(* C3 *)

\* the first line, `only work`, content lines, and possibly a closing `end`
OnlyBlockFile(content) ==
    /\ Len(content) >= 3
    /\ content[1] = LHeader
    /\ content[2] = LOnlyWork
    /\ \A i \in 3..Len(content) :
          \/ ~AnyDirective(content[i], <<"#">>)
          \/ i = Len(content) /\ content[i] = LEnd

\* C3: for a block `only work` on a host whose only tag is home, whatever the content
\* lines of the block, specialize writes each of them with the comment sequence in
\* front and generalize of that output gives back the original content.
C3_OnlyBlockRestored ==
    (Chained(2) /\ OnlyBlockFile(fOrig) /\ tags = <<TagHome>>) =>
        /\ \A i \in 3..Len(fOrig) :
              ~AnyDirective(fOrig[i], <<"#">>) => fResults[1].lines[i] = <<"#">> \o fOrig[i]
        /\ fResults[2].lines = fOrig

----------------------------------------------------------------------------
(* C4 *)

\* C4: what generalize writes for a line is the line, or the line less one leading
\* comment sequence; nothing else is dropped.
C4_StripDropsOnlyCseq ==
    (fMode = "generalize" /\ fPos >= 1) =>
        \A i \in 1..Len(fOut) :
            \/ fOut[i] = fContent[i]
            \/ fContent[i] = fCseq \o fOut[i]

----------------------------------------------------------------------------
(* C5 *)

\* C5, as claimed: in both filters a line with the `end` directive leaves the
\* suppress state false, also when the line holds an `only` or `not` directive.
C5_EndAlwaysResets ==
    (AfterLine /\ HasDirective(LastLine, fCseq, KwEnd)) => ~fSuppress

\* C5, amended: a line with the `end` directive leaves the suppress state false
\* unless the line also holds an `only` directive none of whose tags the host has or
\* a `not` directive one of whose tags the host has; then it leaves it true.
C5_EndResetsUnlessSuppressing ==
    (AfterLine /\ HasDirective(LastLine, fCseq, KwEnd)) =>
        fSuppress = Suppressing(LastLine, fCseq, tags)

\* an `end` line met in a suppressed block
C5_Witness ==
    /\ AfterLine /\ fPos >= 3
    /\ fContent[fPos - 2] = LOnlyWork /\ tags = <<TagHome>>
    /\ LastLine = LEnd
    /\ ~fSuppress

----------------------------------------------------------------------------
(* C6 *)

\* C6: for every host tag list and directive tag list T, in both filters and from
\* either state, the line `only T` leaves the suppress state true exactly when host
\* and T have no tag in common, and the line `not T` leaves it true exactly when
\* `only T` leaves it false; so it is for the directive lines the filters meet.
C6_NotComplementsOnly ==
    /\ (Running /\ fPos = 1) =>
          \A T \in DirectiveTagLists, mode \in {"specialize", "generalize"}, s \in BOOLEAN :
              LET o == FilterStep(mode, DirectiveLine(fCseq, KwOnly, T), fCseq, tags, s).suppress
                  n == FilterStep(mode, DirectiveLine(fCseq, KwNot, T), fCseq, tags, s).suppress
              IN  o = ~Common(tags, T) /\ n = ~o
    /\ \A T \in DirectiveTagLists :
          /\ (AfterLine /\ LastLine = DirectiveLine(fCseq, KwOnly, T))
                => fSuppress = ~Common(tags, T)
          /\ (AfterLine /\ LastLine = DirectiveLine(fCseq, KwNot, T))
                => fSuppress = Common(tags, T)

\* a `not work` line has been processed on a host with the tag work
C6_Witness ==
    /\ AfterLine /\ RunMode = "specialize"
    /\ LastLine = DirectiveLine(fCseq, KwNot, <<TagWork>>)
    /\ tags = <<TagWork>>
    /\ fSuppress

----------------------------------------------------------------------------
(* C7 *)

\* C7: the suppress state after a line with an `only` or `not` directive is decided
\* by the line and the host's tags: it is the same from either state before.
C7_BlocksDoNotNest ==
    (AfterLine /\ OpensBlock(LastLine, fCseq)) =>
        /\ fSuppress = Suppressing(LastLine, fCseq, tags)
        /\ \A s \in BOOLEAN :
              FilterStep(RunMode, LastLine, fCseq, tags, s).suppress = fSuppress

\* a `not work` line inside the suppressed block of `only work`, on a host with the
\* tag home: the block is closed and the new one is active
C7_Witness ==
    /\ AfterLine /\ fPos >= 3
    /\ fContent[fPos - 2] = LOnlyWork /\ LastLine = LNotWork
    /\ tags = <<TagHome>>
    /\ ~fSuppress

----------------------------------------------------------------------------
(* C8 *)

\* C8: specialize writes once per line, the line or the comment sequence and the
\* line, and a line with an `only` or `not` directive always as it is; the file it
\* writes has as many lines as the one it read.
C8_DirectiveLinesVerbatim ==
    /\ (RunMode = "specialize" /\ fPos >= 1) =>
          /\ Len(fOut) = fPos - 1
          /\ \A i \in 1..Len(fOut) :
                /\ fOut[i] \in {fContent[i], fCseq \o fContent[i]}
                /\ OpensBlock(fContent[i], fCseq) => fOut[i] = fContent[i]
    /\ \A k \in 1..Len(fResults) :
          fResults[k].mode = "specialize" =>
              /\ Len(fResults[k].lines) = Len(fResults[k].input)
              /\ \A i \in 1..Len(fResults[k].lines) :
                    \/ fResults[k].lines[i] = fResults[k].input[i]
                    \/ /\ SplitWS(fResults[k].input[1]) # <<>>
                       /\ fResults[k].lines[i] =
                              SplitWS(fResults[k].input[1])[1] \o fResults[k].input[i]

\* an active `only work` line met while comment_out was set by `not work`
C8_Witness ==
    /\ AfterLine /\ RunMode = "specialize" /\ fPos >= 3
    /\ fContent[fPos - 2] = LNotWork /\ LastLine = LOnlyWork
    /\ tags = <<TagWork>>
    /\ fOut[fPos - 1] = LOnlyWork
    /\ fOut[fPos - 2] = LNotWork

----------------------------------------------------------------------------
(* C9 *)

DeleteDone == last.op = "delete"

\* what delete leaves, whatever was there: it completes, the home entry and the
\* stage file are gone, the repository file is gone if rm_repo or commit is set and
\* untouched otherwise, and the same call made again completes and changes nothing
DeleteLeaves ==
    LET again == delete(Fs, last.path, last.flags[1], last.flags[2])
    IN  /\ last.raised = "none"
        /\ home[last.path] = NoEntry
        /\ stage[last.path] = NoEntry
        /\ repo[last.path] =
              IF last.flags[1] \/ last.flags[2] THEN NoEntry ELSE last.pre.repo
        /\ again.raised = "none"
        /\ again.home = home /\ again.stage = stage /\ again.repo = repo

NothingToUnlink == last.pre.home.kind = "none" /\ last.pre.stage.kind = "none"

\* C9, as claimed: delete completes for every combination of present and missing
\* components, leaves home entry and stage file absent and the repository file
\* absent or unchanged as the flags say, is idempotent, and with no home entry and
\* no stage file prints exactly two warnings.
C9_DeleteTwoWarnings ==
    DeleteDone => (DeleteLeaves /\ (NothingToUnlink => last.warnings = 2))

\* C9, amended: as claimed, but with no home entry and no stage file it prints two
\* warnings, and a third one when rm_repo or commit is set and the repository file
\* is missing as well.
C9_DeleteWarnsPerMissingPart ==
    DeleteDone =>
        /\ DeleteLeaves
        /\ NothingToUnlink =>
              last.warnings =
                  IF (last.flags[1] \/ last.flags[2]) /\ last.pre.repo.kind = "none"
                  THEN 3 ELSE 2

\* delete of a path that is neither linked nor staged, its repository file kept
C9_Witness ==
    /\ DeleteDone /\ NothingToUnlink
    /\ last.flags = <<FALSE, FALSE>>
    /\ last.pre.repo.kind = "file"
    /\ repo[last.path] = last.pre.repo
    /\ last.warnings = 2

----------------------------------------------------------------------------
(* C10 *)

\* the text has a first line, and that line a token to take the comment sequence from
Filterable(text) ==
    /\ Readlines(text) # <<>>
    /\ SplitWS(Readlines(text)[1]) # <<>>

\* C10: add on a path whose home entry is a regular file, at any depth of the path,
\* leaves the former home content on the stage, a symlink at home, and the
\* generalize filter's output of that content in the repository.
C10_AddManagesFile ==
    (last.op = "add" /\ last.pre.home.kind = "file" /\ Filterable(last.pre.home.text)) =>
        /\ last.raised = "none"
        /\ stage[last.path] = last.pre.home
        /\ home[last.path] = SymLink
        /\ repo[last.path] =
              FileOf(filter_and_write("generalize", Readlines(last.pre.home.text), tags).text)

----------------------------------------------------------------------------
(* C11 *)

\* the step is a call of add on a path whose home entry is a symlink
AddOnSymlink == last'.op = "add" /\ home[last'.path].kind = "link"

\* the step changes none of the three trees and delegates nothing
NothingChanged ==
    /\ UNCHANGED <<home, homeDirs, stage, stageDirs, repo, repoDirs>>
    /\ last'.vcs = <<>>

\* C11 as stated: add on a path whose home entry is a symlink prints its message and
\* aborts: home, stage and repository unchanged, no add delegated to version control.
C11_AddOnSymlinkPrintsAndAborts ==
    [][AddOnSymlink =>
          /\ last'.raised = "exit"
          /\ "already managed" \in last'.said
          /\ NothingChanged]_vars

\* C11: add on a path whose home entry is a symlink aborts before changing anything:
\* home, stage and repository are unchanged and no add is delegated to version
\* control, whatever commit is; its message is printed when verbose is set, and only then.
C11_AddOnSymlinkAborts ==
    [][AddOnSymlink =>
          /\ last'.raised = "exit"
          /\ ("already managed" \in last'.said) = last'.flags[2]
          /\ NothingChanged]_vars

C11_Witness ==
    /\ last.op = "add" /\ last.flags = <<TRUE, FALSE>>
    /\ last.pre.home.kind = "link"
    /\ last.raised = "exit" /\ last.vcs = <<>>
    /\ last.said = {}
    /\ home[last.path] = SymLink

----------------------------------------------------------------------------
(* C12 *)

\* C12: link leaves an existing home entry alone, a symlink whose target is missing
\* included, and completes; with no home entry it creates the parent directories and
\* the symlink.
C12_LinkNoOpOnAnyEntry ==
    last.op = "link" =>
        /\ last.raised = "none"
        /\ IF last.pre.home.kind # "none"
           THEN home[last.path] = last.pre.home
           ELSE home[last.path] = SymLink /\ dirname(last.path) \in homeDirs

----------------------------------------------------------------------------
(* C13 *)

\* the paths are those of the set, each once
EachOnce(paths, set) == Range(paths) = set /\ Len(paths) = Cardinality(set)

\* C13: delete_all hands every file under the stage root, at every depth, to delete
\* once, without repository removal and without commit, and then removes the stage
\* tree: afterwards the stage root does not exist, no home entry is left at a path
\* that was staged, and the repository is as it was. (It raises FileNotFoundError,
\* and does nothing, exactly when the stage root does not exist.)
C13_DeleteAllClearsStage ==
    [][last'.op = "delete_all" =>
          /\ EachOnce(last'.calls, FilesOf(stage))
          /\ last'.vcs = <<>>
          /\ stageDirs' = {} /\ FilesOf(stage') = {}
          /\ \A p \in FilesOf(stage) : home'[p] = NoEntry
          /\ repo' = repo /\ repoDirs' = repoDirs
          /\ (last'.raised = "none") = (<<>> \in stageDirs)
          /\ last'.raised \in {"none", "FileNotFoundError"}]_vars

\* delete_all has deleted a staged file at the top and one two directories down
C13_Witness ==
    /\ last.op = "delete_all" /\ last.raised = "none"
    /\ Range(last.calls) = {PathTop, PathNested}
    /\ stageDirs = {}
    /\ \A p \in Paths : home[p] = NoEntry /\ stage[p] = NoEntry
    /\ \E p \in Paths : repo[p].kind = "file"

----------------------------------------------------------------------------
(* C14 *)

\* dir is a directory above the path
Under(path, dir) == Len(dir) < Len(path) /\ SubSeq(path, 1, Len(dir)) = dir

\* the path goes through a directory named .git
UnderGit(path) == \E i \in 1..(Len(path) - 1) : path[i] = ".git"

\* C14: specialize_all hands to specialize, once each, the files of the repository
\* at every depth but those under the stage directory, wherever in the repository
\* the stage is, those under a .git directory, and the tag configuration file.
C14_SpecializeAllSkips ==
    [][last'.op = "specialize_all" =>
          EachOnce(last'.calls,
                   {p \in FilesOf(repo) :
                       ~Under(p, stagePath) /\ ~UnderGit(p) /\ p # tagConfigPath})]_vars

----------------------------------------------------------------------------
(* C15 *)

\* the text of the line before its first `:` is the hostname
NamesHost(line, host) ==
    /\ Find(line, <<":">>) # 0
    /\ SubSeq(line, 1, Find(line, <<":">>) - 1) = host

\* the lines of the tag configuration file that name the host
HostEntries == {i \in 1..Len(tagConfig) : NamesHost(tagConfig[i], hostname)}

\* C15: on a host without an entry in the tag configuration file the tags are [""],
\* and then, for every tag list of a directive, in both filters and from either
\* state, an `only` line leaves the suppress state true and a `not` line leaves it
\* false; so it is for the directive lines the filters meet, and no filter ends in
\* exit() but for a first line without a token.
C15_UnknownHostMatchesNothing ==
    HostEntries = {} =>
        /\ tags = << <<>> >>
        /\ (Running /\ fPos = 1) =>
              \A T \in DirectiveTagLists, mode \in {"specialize", "generalize"}, s \in BOOLEAN :
                  /\ FilterStep(mode, DirectiveLine(fCseq, KwOnly, T), fCseq, tags, s).suppress
                  /\ ~FilterStep(mode, DirectiveLine(fCseq, KwNot, T), fCseq, tags, s).suppress
        /\ (AfterLine /\ HasDirective(LastLine, fCseq, KwOnly)) => fSuppress
        /\ (AfterLine /\ HasDirective(LastLine, fCseq, KwNot)
                      /\ ~HasDirective(LastLine, fCseq, KwOnly)) => ~fSuppress
        /\ fMode = "exit" => SplitWS(fContent[1]) = <<>>

\* on the unknown host tv, an `only work` line has been processed and then, in the
\* block it suppressed, a `not work` line that left the state false
C15_Witness ==
    /\ hostname = HostTv /\ HostEntries = {}
    /\ AfterLine /\ fPos >= 3 /\ RunMode = "specialize"
    /\ fContent[fPos - 2] = LOnlyWork /\ LastLine = LNotWork
    /\ ~fSuppress

----------------------------------------------------------------------------
(* C16 *)

\* what generalize writes to the repository for a staged file
Generalized(entry) ==
    FileOf(filter_and_write("generalize", Readlines(entry.text), tags).text)

\* C16: generalize on a path without a stage file returns without error and changes
\* nothing: the repository file and directories are as before and no update is
\* delegated to version control, whatever commit is. generalize_all, when it
\* completes, has handed every staged file to generalize once: a file generalize
\* returns early on (no line to read) keeps its repository instance as it was, and
\* the other files are generalized all the same.
C16_GeneralizeSkipsUnstaged ==
    [][/\ (last'.op = "generalize" /\ stage[last'.path].kind = "none") =>
              /\ last'.raised = "none"
              /\ UNCHANGED <<home, homeDirs, stage, stageDirs, repo, repoDirs>>
              /\ last'.vcs = <<>>
       /\ (last'.op = "generalize_all" /\ last'.raised = "none") =>
              /\ EachOnce(last'.calls, FilesOf(stage))
              /\ \A p \in FilesOf(stage) :
                    repo'[p] = IF Readlines(stage[p].text) = <<>> THEN repo[p]
                               ELSE Generalized(stage[p])]_vars

\* generalize with commit on a path that is in the repository and not on the stage
C16_Witness ==
    /\ last.op = "generalize" /\ last.flags = <<TRUE>>
    /\ last.pre.stage.kind = "none" /\ last.pre.repo.kind = "file"
    /\ last.raised = "none" /\ last.vcs = <<>>
    /\ repo[last.path] = last.pre.repo
    /\ "not handled" \in last.said

----------------------------------------------------------------------------
(* C17 *)

\* the words of the line after its first `:`
TagsOf(line) == SplitWS(SubSeq(line, Find(line, <<":">>) + 1, Len(line)))

\* the first of the lines that name the host
FirstEntry == CHOOSE i \in HostEntries : \A j \in HostEntries : i <= j

\* C17: the tags of the Manager are those of the first line of the tag configuration
\* file whose text before the first `:` is the hostname, whatever lines follow it
\* and whatever lines name a host that the hostname starts with or that starts with
\* the hostname; they are [""] when no line names the host.
C17_FirstExactHostLine ==
    last.op = "_get_tags" =>
        tags = IF HostEntries = {} THEN << <<>> >> ELSE TagsOf(tagConfig[FirstEntry])

\* the host pc: the file names the hosts p and pc2 first, then pc twice
C17_Witness ==
    /\ last.op = "_get_tags"
    /\ hostname = HostPc
    /\ tagConfig = <<LPWork, LPc2Work, LPcHome>> \/ tagConfig = <<LPc2Work, LPcHome, LPcWork>>
    /\ tags = <<TagHome>>

----------------------------------------------------------------------------
(* C18 *)

\* C18: whatever operation is performed, a home entry that is there before and gone
\* after was a symlink to the stage: no regular home file is removed.
C18_OnlyStageLinksRemoved ==
    [][\A p \in Paths :
          (home[p].kind # "none" /\ home'[p].kind = "none") => home[p].kind = "link"]_vars

----------------------------------------------------------------------------
(* C19 *)

\* C19: when generalize (called by itself or by add) or specialize ends because the
\* first line of the file it reads has no token, the file it was to write, if there
\* was one, has the content it had before.
C19_FailedDetectionKeepsDestination ==
    (last.op \in {"generalize", "add", "specialize"} /\ "no comment character" \in last.said) =>
        /\ last.raised = "exit"
        /\ (last.op \in {"generalize", "add"} /\ last.pre.repo.kind = "file")
              => repo[last.path] = last.pre.repo
        /\ (last.op = "specialize" /\ last.pre.stage.kind = "file")
              => stage[last.path] = last.pre.stage

====
